---- MODULE Spec2Model ----
(***************************************************************************)
(* notebook-mcp npm launcher: npm/bin/notebook-mcp.js and                  *)
(* npm/lib/launcher.js.  One run of the launcher process: locate a Python  *)
(* interpreter, make sure notebook_mcp is importable (pip install if not), *)
(* spawn the backend, wait for its 'error' / 'exit' event and terminate.   *)
(*                                                                         *)
(* Conventions.  A JavaScript value that may be null/undefined is a set:   *)
(* {} for null/undefined, {v} for the value v.  A text is a TLA+ string;   *)
(* a text built by concatenation or join is the sequence of its fragments, *)
(* in order.  The value of NOTEBOOK_MCP_PIP_ARGS is a sequence of          *)
(* one-character strings, because the code splits it.                      *)
(***************************************************************************)
EXTENDS Integers, Sequences, FiniteSets, TLC

VARIABLES
    env,          \* process.env: the three variables the launcher reads
    pathLookup,   \* the host PATH: what which.sync does for each candidate
    processArgv,  \* process.argv
    pc,           \* position of the run: main, probe1, install, probe2, spawn, returned
    argv,         \* the parameter of launch
    python,       \* the local `python` of launch
    whichCalls,   \* the which.sync calls made, in order
    syncCalls,    \* the spawnSync calls made, in order, with their results
    child,        \* the spawn call of the backend, {} before it
    spawnOutcome, \* none, started, failed (asynchronous 'error'), threw
    events,       \* the child events delivered to the listeners, in order
    promise,      \* the promise returned by launch
    proc,         \* the launcher process: what it wrote to stderr, its exit code
    calls         \* how many times findPython and spawn were called

vars == <<env, pathLookup, processArgv, pc, argv, python, whichCalls, syncCalls,
          child, spawnOutcome, events, promise, proc, calls>>

----------------------------------------------------------------------------
(* Bounds of the model. *)

MaxExitCode == 3
MaxArgv == 2
MaxPipArgsLen == 2

----------------------------------------------------------------------------
(* Values. *)

None == {}
Some(x) == {x}
The(s) == CHOOSE x \in s : TRUE

\* JavaScript truthiness of an optional text: undefined and "" are falsy.
Truthy(v) == v # None /\ v # Some("")

ExitCodes == 0..MaxExitCode
Signals == {"SIGTERM", "SIGKILL"}
Chars == {" ", "\t", "a"}
ArgTokens == {"--foo", "x"}

SeqsUpTo(S, n) == UNION {[1..k -> S] : k \in 0..n}

\* s occurs in t as a run of consecutive fragments.
ContainsSeq(t, s) ==
    \E i \in 0..(Len(t) - Len(s)) : \A j \in 1..Len(s) : t[i + j] = s[j]

----------------------------------------------------------------------------
(* findPython, launcher.js 5-19. *)

Candidates_Python3First == <<"python3", "python", "py">>

Candidates == <<"python", "python3", "py">>

\* which.sync(c): returns a path, returns nothing, or throws.
whichSync(c) ==
    CASE pathLookup[c] = "found"   -> [threw |-> FALSE, value |-> Some("/usr/bin/" \o c)]
      [] pathLookup[c] = "nothing" -> [threw |-> FALSE, value |-> None]
      [] OTHER                     -> [threw |-> TRUE, value |-> None]

RECURSIVE probeCandidates(_, _)
probeCandidates(i, probed) ==
    IF i > Len(Candidates)
    THEN [python |-> None, probed |-> probed]
    ELSE LET c == Candidates[i]
             r == whichSync(c)
         IN  IF ~r.threw /\ Truthy(r.value)
             THEN [python |-> r.value, probed |-> Append(probed, c)]
             ELSE probeCandidates(i + 1, Append(probed, c))

findPython_PathFirst ==
    LET r == probeCandidates(1, <<>>)
    IN  IF r.python = None /\ Truthy(env.NOTEBOOK_MCP_PYTHON)
        THEN [python |-> env.NOTEBOOK_MCP_PYTHON, probed |-> r.probed]
        ELSE r

findPython ==
    LET explicit == env.NOTEBOOK_MCP_PYTHON
    IN  IF Truthy(explicit)
        THEN [python |-> explicit, probed |-> <<>>]
        ELSE probeCandidates(1, <<>>)

----------------------------------------------------------------------------
(* Errors.  message is the sequence of the text's fragments. *)

NewError(message, exitCode) == [message |-> message, exitCode |-> exitCode]

\* err.stack of an Error: "Error: " + message + the frames.
Stack(err) == <<"Error: ">> \o err.message \o <<"\n    at <frames>">>

\* The error spawnSync reports in res.error, and spawn reports by 'error' or throws.
OsError(syscall, cmd, errno) == NewError(<<syscall, " ", cmd, " ", errno>>, None)

\* Array.prototype.join: the elements with sep between them.
RECURSIVE Join(_, _)
Join(xs, sep) ==
    IF Len(xs) = 0 THEN <<>>
    ELSE IF Len(xs) = 1 THEN <<xs[1]>>
    ELSE <<xs[1], sep>> \o Join(Tail(xs), sep)

----------------------------------------------------------------------------
(* spawnSync results. *)

SyncResults(cmd) ==
    {[status |-> Some(n), signal |-> None, error |-> None] : n \in ExitCodes}
    \cup {[status |-> None, signal |-> Some(s), error |-> None] : s \in {"SIGTERM"}}
    \cup {[status |-> None, signal |-> None,
           error |-> Some(OsError("spawnSync", cmd, "ENOENT"))]}

SyncCall(cmd, args, stdio, res) ==
    [cmd |-> cmd, args |-> args, stdio |-> stdio, res |-> res]

----------------------------------------------------------------------------
(* runChecked, launcher.js 21-29: what it throws for a spawnSync result,   *)
(* {} when it returns normally.                                            *)

runChecked_IgnoreStatus(cmd, args, res) ==
    IF res.error # None THEN res.error ELSE None

runChecked_IgnoreError(cmd, args, res) ==
    IF res.status # None /\ res.status # Some(0)
    THEN Some(NewError(<<cmd, " ">> \o Join(args, " ")
                         \o <<" exited with code ", ToString(The(res.status))>>,
                       res.status))
    ELSE None

runChecked_ThrowOnSignal(cmd, args, res) ==
    IF res.error # None THEN res.error
    ELSE IF res.status # Some(0)
    THEN Some(NewError(<<cmd, " ">> \o Join(args, " ")
                         \o <<" exited with code ",
                              IF res.status = None THEN "null" ELSE ToString(The(res.status))>>,
                       res.status))
    ELSE None

runChecked(cmd, args, res) ==
    IF res.error # None THEN res.error
    ELSE IF res.status # None /\ res.status # Some(0)
    THEN Some(NewError(<<cmd, " ">> \o Join(args, " ")
                         \o <<" exited with code ", ToString(The(res.status))>>,
                       res.status))
    ELSE None

(* canImportNotebookMcp, launcher.js 31-34. *)

ImportProbeArgs == <<"-c", "import notebook_mcp">>

canImportNotebookMcp_ReturnsStatus(res) == res.status # None /\ res.status # Some(0)

canImportNotebookMcp_Ran(res) == res.status # None

canImportNotebookMcp(res) == res.status = Some(0)

----------------------------------------------------------------------------
(* ensureInstalled, launcher.js 36-51. *)

\* String.prototype.split(sep) on a sequence of characters; cur is the piece
\* being read.  The pieces are texts, empty ones included.
RECURSIVE split(_, _, _)
split(s, sep, cur) ==
    IF s = <<>> THEN <<cur>>
    ELSE IF Head(s) = sep
    THEN <<cur>> \o split(Tail(s), sep, "")
    ELSE split(Tail(s), sep, cur \o Head(s))

\* .filter(Boolean) on texts: the empty text is dropped.
filterBoolean_KeepAll(xs) == xs

filterBoolean(xs) == SelectSeq(xs, LAMBDA t : t # "")

pipSpec ==
    IF Truthy(env.NOTEBOOK_MCP_PIP_SPEC)
    THEN The(env.NOTEBOOK_MCP_PIP_SPEC)
    ELSE "notebook-mcp"

extraArgs ==
    LET value == IF env.NOTEBOOK_MCP_PIP_ARGS = None
                 THEN <<>>
                 ELSE The(env.NOTEBOOK_MCP_PIP_ARGS)
    IN  filterBoolean(split(value, " ", ""))

InstallArgs == <<"-m", "pip", "install", "-U", pipSpec>> \o extraArgs

PostInstallError ==
    NewError(<<"Installed notebook-mcp but it is still not importable. ",
               "Check that your Python environment is the one you expect (",
               "NOTEBOOK_MCP_PYTHON", ").">>, None)

\* What ensureInstalled throws after the re-probe, {} when it returns.
verifyInstalled_Trusting(res) == None

verifyInstalled(res) ==
    IF ~canImportNotebookMcp(res) THEN Some(PostInstallError) ELSE None

----------------------------------------------------------------------------
(* launch, launcher.js 53-82, and the entry point, notebook-mcp.js 5-9. *)

DiscoveryError_NoHint ==
    NewError(<<"Python was not found on PATH. Install Python 3.11+ and ensure python is available.">>,
             None)

DiscoveryError ==
    NewError(<<"Python was not found on PATH. Install Python 3.11+ and ensure python is available, ",
               "or set ", "NOTEBOOK_MCP_PYTHON",
               " to the full path of your python executable.">>, None)

\* process.argv.slice(2)
sliceArgv_FromOne(pargv) == SubSeq(pargv, 2, Len(pargv))

sliceArgv(pargv) == SubSeq(pargv, 3, Len(pargv))

BackendArgs(args) == <<"-m", "notebook_mcp.server">> \o args

\* A promise settles once: a later resolve or reject changes nothing.
Pending == [state |-> "pending", value |-> None, err |-> None]
resolve_Overwrites(p, v) == [state |-> "resolved", value |-> Some(v), err |-> None]

resolve(p, v) ==
    IF p.state = "pending" THEN [state |-> "resolved", value |-> Some(v), err |-> None] ELSE p
reject(p, e) ==
    IF p.state = "pending" THEN [state |-> "rejected", value |-> None, err |-> Some(e)] ELSE p

SignalError(signal) ==
    NewError(<<"notebook-mcp exited due to signal ", signal>>, Some(1))

\* The 'exit' listener, launcher.js 72-80; code and signal are {} for null.
onExit_CodeOnly(p, code, signal) ==
    resolve(p, IF code = None THEN 0 ELSE The(code))

onExit_RejectNonZero(p, code, signal) ==
    IF signal # None
    THEN reject(p, SignalError(The(signal)))
    ELSE IF code = None \/ code = Some(0)
    THEN resolve(p, 0)
    ELSE reject(p, NewError(<<"notebook-mcp exited with code ", ToString(The(code))>>, code))

onExit(p, code, signal) ==
    IF signal # None
    THEN reject(p, SignalError(The(signal)))
    ELSE resolve(p, IF code = None \/ code = Some(0) THEN 0 ELSE The(code))

\* The launcher process: stderr.write and exit act only while it runs.
Running == [stderr |-> <<>>, exit |-> None]
stderrWrite(p, text) ==
    IF p.exit = None THEN [p EXCEPT !.stderr = Append(@, text)] ELSE p
processExit(p, code) ==
    IF p.exit = None THEN [p EXCEPT !.exit = Some(code)] ELSE p

\* The message the catch handler writes, notebook-mcp.js 6-7.
Diagnostic(err) == Stack(err) \o <<"\n">>

\* The catch handler, notebook-mcp.js 5-9.
catchHandler_ErrorCode(p, err) ==
    processExit(stderrWrite(p, Diagnostic(err)),
                IF err.exitCode # None THEN The(err.exitCode) ELSE 1)

catchHandler(p, err) ==
    processExit(stderrWrite(p, Diagnostic(err)), 1)

----------------------------------------------------------------------------
(* The environments a run starts in. *)

Overrides == {None, Some(""), Some("/opt/venv/bin/python")}
PathLookups == [{"python", "python3", "py"} -> {"found", "nothing", "throws"}]
PipSpecs == {None, Some(""), Some("notebook-mcp==1.0")}
PipArgsValues == {None} \cup {Some(s) : s \in SeqsUpTo(Chars, MaxPipArgsLen)}
Argvs == SeqsUpTo(ArgTokens, MaxArgv)

Env(override, spec, args) ==
    [NOTEBOOK_MCP_PYTHON |-> override, NOTEBOOK_MCP_PIP_SPEC |-> spec,
     NOTEBOOK_MCP_PIP_ARGS |-> args]

ProcessArgv(args) == <<"node", "/usr/local/bin/notebook-mcp">> \o args

OnlyPython3 == [c \in {"python", "python3", "py"} |->
                   IF c = "python3" THEN "found" ELSE "throws"]

\* Every override and PATH, with the installer variables unset.
InitLocator ==
    /\ \E o \in Overrides : env = Env(o, None, None)
    /\ pathLookup \in PathLookups
    /\ processArgv = ProcessArgv(<<"--foo">>)

\* Every installer configuration, with an interpreter at hand.
InitInstaller ==
    /\ \E o \in {None, Some("/opt/venv/bin/python")}, s \in PipSpecs, a \in PipArgsValues :
           env = Env(o, s, a)
    /\ pathLookup = OnlyPython3
    /\ processArgv = ProcessArgv(<<"--foo">>)

\* Every argument list, with an interpreter at hand.
InitArguments ==
    /\ \E o \in {None, Some("/opt/venv/bin/python")} : env = Env(o, None, None)
    /\ pathLookup = OnlyPython3
    /\ \E args \in Argvs : processArgv = ProcessArgv(args)

Init ==
    /\ InitLocator \/ InitInstaller \/ InitArguments
    /\ pc = "main"
    /\ argv = <<>>
    /\ python = None
    /\ whichCalls = <<>>
    /\ syncCalls = <<>>
    /\ child = None
    /\ spawnOutcome = "none"
    /\ events = <<>>
    /\ promise = Pending
    /\ proc = Running
    /\ calls = [findPython |-> 0, spawn |-> 0]

----------------------------------------------------------------------------
(* The steps of a run. *)

inputs == <<env, pathLookup, processArgv>>

\* notebook-mcp.js 5 and launcher.js 53-60: launch is called, findPython runs.
Launch ==
    /\ pc = "main"
    /\ LET r == findPython
       IN  /\ argv' = sliceArgv(processArgv)
           /\ python' = r.python
           /\ whichCalls' = r.probed
           /\ IF r.python = None
              THEN /\ promise' = reject(promise, DiscoveryError)
                   /\ pc' = "returned"
              ELSE /\ promise' = promise
                   /\ pc' = "probe1"
    /\ calls' = [calls EXCEPT !.findPython = @ + 1]
    /\ UNCHANGED <<inputs, syncCalls, child, spawnOutcome, events, proc>>

\* launcher.js 37: the first import probe.
Probe ==
    /\ pc = "probe1"
    /\ \E res \in SyncResults(The(python)) :
        /\ syncCalls' = Append(syncCalls, SyncCall(The(python), ImportProbeArgs, "ignore", res))
        /\ pc' = IF canImportNotebookMcp(res) THEN "spawn" ELSE "install"
    /\ UNCHANGED <<inputs, argv, python, whichCalls, child, spawnOutcome, events,
                   promise, proc, calls>>

\* launcher.js 39-43: the install command.
Install ==
    /\ pc = "install"
    /\ \E res \in SyncResults(The(python)) :
        LET thrown == runChecked(The(python), InstallArgs, res)
        IN  /\ syncCalls' = Append(syncCalls, SyncCall(The(python), InstallArgs, "inherit", res))
            /\ IF thrown # None
               THEN /\ promise' = reject(promise, The(thrown))
                    /\ pc' = "returned"
               ELSE /\ promise' = promise
                    /\ pc' = "probe2"
    /\ UNCHANGED <<inputs, argv, python, whichCalls, child, spawnOutcome, events, proc, calls>>

\* launcher.js 45-50: the re-probe.
Reprobe ==
    /\ pc = "probe2"
    /\ \E res \in SyncResults(The(python)) :
        LET thrown == verifyInstalled(res)
        IN  /\ syncCalls' = Append(syncCalls, SyncCall(The(python), ImportProbeArgs, "ignore", res))
            /\ IF thrown # None
               THEN /\ promise' = reject(promise, The(thrown))
                    /\ pc' = "returned"
               ELSE /\ promise' = promise
                    /\ pc' = "spawn"
    /\ UNCHANGED <<inputs, argv, python, whichCalls, child, spawnOutcome, events, proc, calls>>

\* spawn is tried again after it throws.
SpawnBackend_RetryOnThrow ==
    /\ pc = "spawn"
    /\ child' = Some([cmd |-> The(python), args |-> BackendArgs(argv),
                      stdio |-> "inherit", env |-> env])
    /\ \E o \in {"started", "failed", "threw"} :
        /\ spawnOutcome' = o
        /\ pc' = IF o = "threw" THEN "spawn" ELSE "returned"
    /\ promise' = promise
    /\ calls' = [calls EXCEPT !.spawn = @ + 1]
    /\ UNCHANGED <<inputs, argv, python, whichCalls, syncCalls, events, proc>>

\* launcher.js 65-71: spawn the backend and return the promise.  spawn starts
\* the process, or reports the failure by a later 'error' event, or throws.
SpawnBackend ==
    /\ pc = "spawn"
    /\ child' = Some([cmd |-> The(python), args |-> BackendArgs(argv),
                      stdio |-> "inherit", env |-> env])
    /\ \E o \in {"started", "failed", "threw"} :
        /\ spawnOutcome' = o
        /\ promise' = IF o = "threw"
                      THEN reject(promise, OsError("spawn", The(python), "ENOMEM"))
                      ELSE promise
    /\ pc' = "returned"
    /\ calls' = [calls EXCEPT !.spawn = @ + 1]
    /\ UNCHANGED <<inputs, argv, python, whichCalls, syncCalls, events, proc>>

\* What the 'exit' event carries: a code and no signal, or a signal and no code.
ExitEvents ==
    {[type |-> "exit", code |-> Some(n), signal |-> None] : n \in ExitCodes}
    \cup {[type |-> "exit", code |-> None, signal |-> Some(sig)] : sig \in Signals}

\* The 'error' event is delivered to a listener that does not reject.
ChildError_NoReject ==
    /\ pc = "returned" /\ proc.exit = None
    /\ spawnOutcome = "failed" /\ events = <<>>
    /\ events' = Append(events, [type |-> "error", code |-> None, signal |-> None])
    /\ UNCHANGED <<inputs, pc, argv, python, whichCalls, syncCalls, child, spawnOutcome, proc,
                   calls, promise>>

\* launcher.js 71: the child's 'error' event, when the process could not be started.
ChildError ==
    /\ pc = "returned" /\ proc.exit = None
    /\ spawnOutcome = "failed" /\ events = <<>>
    /\ LET e == OsError("spawn", The(python), "ENOENT")
       IN  /\ events' = Append(events, [type |-> "error", code |-> None, signal |-> None])
           /\ promise' = reject(promise, e)
    /\ UNCHANGED <<inputs, pc, argv, python, whichCalls, syncCalls, child, spawnOutcome, proc,
                   calls>>

\* launcher.js 72-80: the child's 'exit' event: the exit of a started child, by a
\* code or by a signal, or the 'exit' that may follow the 'error' of a failed spawn.
ChildExit ==
    /\ pc = "returned" /\ proc.exit = None
    /\ \E ev \in ExitEvents :
        /\ \/ spawnOutcome = "started" /\ events = <<>>
           \/ spawnOutcome = "failed" /\ Len(events) = 1 /\ ev.signal = None
        /\ events' = Append(events, ev)
        /\ promise' = onExit(promise, ev.code, ev.signal)
    /\ UNCHANGED <<inputs, pc, argv, python, whichCalls, syncCalls, child, spawnOutcome, proc,
                   calls>>

\* notebook-mcp.js 5-9: the rejection reaches the catch handler.
Catch ==
    /\ pc = "returned" /\ proc.exit = None
    /\ promise.state = "rejected"
    /\ proc' = catchHandler(proc, The(promise.err))
    /\ UNCHANGED <<inputs, pc, argv, python, whichCalls, syncCalls, child, spawnOutcome,
                   events, promise, calls>>

\* The process ends without waiting for the child, as if the child were unref'd.
EventLoopEmpty_NoWait ==
    /\ pc = "returned" /\ proc.exit = None
    /\ promise.state # "rejected"
    /\ proc' = processExit(proc, 0)
    /\ UNCHANGED <<inputs, pc, argv, python, whichCalls, syncCalls, child, spawnOutcome,
                   events, promise, calls>>

\* notebook-mcp.js 5: launch resolved, its value has no handler; the process ends
\* when nothing is left to wait for, with the default exit code.
EventLoopEmpty ==
    /\ pc = "returned" /\ proc.exit = None
    /\ promise.state = "resolved"
    /\ events # <<>> /\ events[Len(events)].type = "exit"
    /\ proc' = processExit(proc, 0)
    /\ UNCHANGED <<inputs, pc, argv, python, whichCalls, syncCalls, child, spawnOutcome,
                   events, promise, calls>>

Next ==
    \/ Launch
    \/ Probe
    \/ Install
    \/ Reprobe
    \/ SpawnBackend
    \/ ChildError
    \/ ChildExit
    \/ Catch
    \/ EventLoopEmpty

Spec == Init /\ [][Next]_vars

\* Node runs the reaction of a settled promise, and ends the process once nothing
\* is left to wait for.
FairSpec == Spec /\ WF_vars(Catch) /\ WF_vars(EventLoopEmpty)

----------------------------------------------------------------------------
(* What a run did, read off its records. *)

\* The backend was started and its 'exit' event was delivered.
BackendExited == spawnOutcome = "started" /\ events # <<>>

\* The rejection's message, and whether the catch handler wrote it and exited 1.
RejectedWith(fragments) ==
    /\ promise.state = "rejected"
    /\ ContainsSeq(The(promise.err).message, fragments)

ExitedOneAfterWriting(fragments) ==
    /\ proc.exit = Some(1)
    /\ Len(proc.stderr) = 1
    /\ ContainsSeq(proc.stderr[1], fragments)

NoCandidateResolves == \A c \in {"python", "python3", "py"} : pathLookup[c] # "found"

----------------------------------------------------------------------------
(* The claims. *)

\* C1: when the started backend exits normally with code N, the launcher process
\* exits with code N.
C1_LauncherExitsWithBackendCode ==
    \A n \in ExitCodes :
        (/\ BackendExited
         /\ events[1].code = Some(n)
         /\ proc.exit # None) => proc.exit = Some(n)

\* C2: when the started backend is ended by a signal S, launch is rejected with an
\* error whose message names S and whose exit code is 1, never resolved, and the
\* launcher, once it has exited, has written that message to stderr and exited
\* with a non-zero code.
C2_SignalTerminationFails ==
    \A sig \in Signals :
        (BackendExited /\ events[1].signal = Some(sig)) =>
            /\ RejectedWith(<<sig>>)
            /\ The(promise.err).exitCode = Some(1)
            /\ proc.exit # None =>
                  /\ proc.exit # Some(0)
                  /\ Len(proc.stderr) = 1
                  /\ ContainsSeq(proc.stderr[1], The(promise.err).message)

C2_Witness ==
    /\ BackendExited
    /\ events[1].signal = Some("SIGKILL")
    /\ proc.exit = Some(1)

\* C3: when the install command exits with a non-zero code N, the run fails with a
\* message holding the command, its arguments and "exited with code N"; there is
\* no re-probe and no backend, and the launcher exits 1.
C3_InstallFailureIsFatal ==
    \A n \in ExitCodes \ {0} :
        (Len(syncCalls) >= 2 /\ syncCalls[2].res.status = Some(n)) =>
            LET call == syncCalls[2]
            IN  /\ call.args[2] = "pip"
                /\ Len(syncCalls) = 2
                /\ child = None
                /\ RejectedWith(<<call.cmd, " ">> \o Join(call.args, " "))
                /\ RejectedWith(<<" exited with code ", ToString(n)>>)
                /\ proc.exit # None =>
                      ExitedOneAfterWriting(<<" exited with code ", ToString(n)>>)

C3_Witness ==
    /\ Len(syncCalls) = 2
    /\ syncCalls[2].res.status = Some(3)
    /\ Len(syncCalls[2].args) > 5
    /\ proc.exit = Some(1)

\* C4: when the first probe exits 0 there is no install and no further probe and
\* the Dependency Ensurer returns; with the override unset and the backend
\* exiting 0, the launcher exits 0.
C4_ImportableMeansNoInstall ==
    (Len(syncCalls) >= 1 /\ syncCalls[1].res.status = Some(0)) =>
        /\ Len(syncCalls) = 1
        /\ syncCalls[1].args = <<"-c", "import notebook_mcp">>
        /\ pc = "spawn" \/ child # None
        /\ promise.state = "rejected" => child # None
        /\ (/\ env.NOTEBOOK_MCP_PYTHON = None
            /\ BackendExited
            /\ events[1].code = Some(0)
            /\ proc.exit # None) => proc.exit = Some(0)

C4_Witness ==
    /\ Len(syncCalls) = 1
    /\ syncCalls[1].res.status = Some(0)
    /\ env.NOTEBOOK_MCP_PYTHON = None
    /\ python = Some("/usr/bin/python3")
    /\ BackendExited
    /\ events[1].code = Some(0)
    /\ proc.exit = Some(0)

\* C5: when the first probe fails, the install command exits 0 and the re-probe
\* fails, the run fails with the message that the package was installed but is
\* still not importable, which names the override variable; there is no backend
\* and the launcher exits 1.
C5_StillNotImportableIsFatal ==
    (/\ Len(syncCalls) = 3
     /\ syncCalls[1].res.status # Some(0)
     /\ syncCalls[2].res.status = Some(0)
     /\ syncCalls[3].res.status # Some(0)) =>
        /\ RejectedWith(<<"Installed notebook-mcp but it is still not importable. ">>)
        /\ RejectedWith(<<"NOTEBOOK_MCP_PYTHON">>)
        /\ child = None
        /\ proc.exit # None => proc.exit = Some(1)

C5_Witness ==
    /\ Len(syncCalls) = 3
    /\ syncCalls[2].res.status = Some(0)
    /\ syncCalls[3].res.status = Some(1)
    /\ proc.exit = Some(1)

\* C6: a set, non-empty override is the interpreter, unchanged, with no candidate
\* probed; with the override unset or empty the candidates are probed.
C6_OverrideWins ==
    pc # "main" =>
        IF env.NOTEBOOK_MCP_PYTHON # None /\ env.NOTEBOOK_MCP_PYTHON # Some("")
        THEN python = env.NOTEBOOK_MCP_PYTHON /\ whichCalls = <<>>
        ELSE whichCalls # <<>> /\ whichCalls[1] = "python"

C6_Witness ==
    /\ pc # "main"
    /\ env.NOTEBOOK_MCP_PYTHON = Some("/opt/venv/bin/python")
    /\ pathLookup["python"] = "found"
    /\ python = Some("/opt/venv/bin/python")

\* C7: with the override unset or empty, the interpreter is the path of the first
\* of python, python3, py that resolves, the candidates probed are those up to
\* it and no later one, and the result is null exactly when none resolves.
C7_FirstResolvableCandidate ==
    (pc # "main" /\ env.NOTEBOOK_MCP_PYTHON \in {None, Some("")}) =>
        LET order == <<"python", "python3", "py">>
            found == {i \in 1..3 : pathLookup[order[i]] = "found"}
        IN  IF found = {}
            THEN python = None /\ whichCalls = order
            ELSE LET first == CHOOSE i \in found : \A j \in found : i <= j
                 IN  /\ python = Some("/usr/bin/" \o order[first])
                     /\ whichCalls = SubSeq(order, 1, first)

C7_Witness ==
    /\ pc # "main"
    /\ env.NOTEBOOK_MCP_PYTHON = None
    /\ pathLookup["python"] = "throws"
    /\ pathLookup["python3"] = "found"
    /\ pathLookup["py"] = "found"
    /\ python = Some("/usr/bin/python3")
    /\ whichCalls = <<"python", "python3">>

\* C8: with the override unset and no candidate resolving, the run fails with a
\* message telling to set the override variable, no probe, install or backend
\* process is started, and the launcher exits 1 after writing the message.
C8_NoInterpreterIsFatal ==
    (pc # "main" /\ env.NOTEBOOK_MCP_PYTHON = None /\ NoCandidateResolves) =>
        /\ RejectedWith(<<"or set ", "NOTEBOOK_MCP_PYTHON">>)
        /\ syncCalls = <<>>
        /\ child = None
        /\ proc.exit # None => ExitedOneAfterWriting(<<"or set ", "NOTEBOOK_MCP_PYTHON">>)

C8_Witness ==
    /\ env.NOTEBOOK_MCP_PYTHON = None
    /\ NoCandidateResolves
    /\ whichCalls = <<"python", "python3", "py">>
    /\ proc.exit = Some(1)

\* C9: after any launcher-level fatal error (no interpreter, install command
\* failure, package not importable after install, spawn error, signal
\* termination) the launcher exits with code 1, whatever exit code the error
\* carries, having written the error's text to stderr.
NoInterpreter == pc # "main" /\ python = None
InstallFailure ==
    /\ Len(syncCalls) >= 2
    /\ \/ syncCalls[2].res.error # None
       \/ syncCalls[2].res.status \notin {None, Some(0)}
NotImportableAfterInstall == Len(syncCalls) = 3 /\ syncCalls[3].res.status # Some(0)
SpawnError == spawnOutcome = "threw" \/ (spawnOutcome = "failed" /\ events # <<>>)
SignalTermination == BackendExited /\ events[1].signal # None
FatalError ==
    \/ NoInterpreter
    \/ InstallFailure
    \/ NotImportableAfterInstall
    \/ SpawnError
    \/ SignalTermination

C9_FatalErrorsExitOne ==
    (FatalError /\ proc.exit # None) =>
        /\ promise.state = "rejected"
        /\ proc.exit = Some(1)
        /\ proc.stderr = <<Stack(The(promise.err)) \o <<"\n">> >>

C9_Witness ==
    /\ InstallFailure
    /\ syncCalls[2].res.status = Some(3)
    /\ The(promise.err).exitCode = Some(3)
    /\ proc.exit = Some(1)

\* C10: the backend is the resolved interpreter run with "-m", "notebook_mcp.server"
\* and then the launcher's own arguments, all of them, in order, and nothing
\* else, with process.env as its environment.
C10_BackendInvocation ==
    child # None =>
        /\ python # None
        /\ The(child).cmd = The(python)
        /\ The(child).args =
              <<"-m", "notebook_mcp.server">> \o SubSeq(processArgv, 3, Len(processArgv))
        /\ The(child).env = env

C10_Witness ==
    /\ child # None
    /\ Len(processArgv) = 4
    /\ processArgv[3] # processArgv[4]
    /\ Len(The(child).args) = 4

\* C11: in a run the backend is spawned at most once and the interpreter is
\* searched at most once; after a spawn failure or the backend's exit, by a code
\* or by a signal, there has been exactly one spawn and one search.
C11_SpawnedAtMostOnce ==
    /\ calls.spawn <= 1
    /\ calls.findPython <= 1
    /\ (child = None) <=> (calls.spawn = 0)
    /\ (SpawnError \/ BackendExited) => (calls.spawn = 1 /\ calls.findPython = 1)
    /\ proc.exit # None => calls.findPython = 1

C11_Witness ==
    /\ spawnOutcome = "threw"
    /\ calls.spawn = 1
    /\ proc.exit = Some(1)

\* C12: the launcher never terminates while a started backend is still running,
\* and once the backend has exited or its spawn has failed the launcher
\* eventually terminates.
BackendRunning == spawnOutcome = "started" /\ events = <<>>

C12_TerminatesWithBackend ==
    /\ [](proc.exit # None => ~BackendRunning)
    /\ (BackendExited \/ SpawnError) ~> (proc.exit # None)

C12_Witness ==
    /\ BackendExited
    /\ events[1].code = Some(2)
    /\ proc.exit # None

\* C13: when the started backend exits with code N and no signal, the promise of
\* launch is resolved with N, never rejected; an 'exit' with neither a code nor
\* a signal resolves it with 0.
C13_ResolvesWithExitCode ==
    /\ \A n \in ExitCodes :
          (BackendExited /\ events[1].signal = None /\ events[1].code = Some(n)) =>
              /\ promise.state = "resolved"
              /\ promise.value = Some(n)
    /\ onExit(Pending, None, None).state = "resolved"
    /\ onExit(Pending, None, None).value = Some(0)

C13_Witness ==
    /\ BackendExited
    /\ events[1].code = Some(3)
    /\ promise.state = "resolved"
    /\ promise.value = Some(3)

\* C14: the steps run in order: a probe only after the interpreter is resolved,
\* the install command only after a first probe that failed, the re-probe only
\* after an install command that raised nothing, and the backend only after a
\* probe, the most recent one, that exited 0.
IsProbe(call) == call.args = <<"-c", "import notebook_mcp">>
IsInstall(call) == Len(call.args) >= 5 /\ SubSeq(call.args, 1, 4) = <<"-m", "pip", "install", "-U">>

C14_StrictlySequential ==
    /\ Len(syncCalls) <= 3
    /\ syncCalls # <<>> =>
          /\ python # None
          /\ calls.findPython = 1
          /\ \A i \in 1..Len(syncCalls) : syncCalls[i].cmd = The(python)
          /\ IsProbe(syncCalls[1])
    /\ Len(syncCalls) >= 2 =>
          /\ syncCalls[1].res.status # Some(0)
          /\ IsInstall(syncCalls[2])
    /\ Len(syncCalls) >= 3 =>
          /\ syncCalls[2].res.error = None
          /\ syncCalls[2].res.status \in {None, Some(0)}
          /\ IsProbe(syncCalls[3])
    /\ (pc = "spawn" \/ child # None) =>
          /\ Len(syncCalls) \in {1, 3}
          /\ IsProbe(syncCalls[Len(syncCalls)])
          /\ syncCalls[Len(syncCalls)].res.status = Some(0)
          /\ promise.state = "rejected" => child # None

C14_Witness ==
    /\ child # None
    /\ Len(syncCalls) = 3
    /\ syncCalls[1].res.status = Some(1)
    /\ syncCalls[2].res.status = Some(0)
    /\ syncCalls[3].res.status = Some(0)

\* C15: when the backend cannot be started, launch is rejected with the error of
\* the spawn, never resolved, also when an 'exit' event follows the 'error'
\* event, and the launcher exits 1.
C15_SpawnFailureRejects ==
    SpawnError =>
        /\ RejectedWith(<<"spawn", " ", The(python), " ">>)
        /\ The(promise.err).exitCode = None
        /\ promise.value = None
        /\ proc.exit # None => ExitedOneAfterWriting(<<"spawn", " ", The(python), " ">>)

C15_Witness ==
    /\ spawnOutcome = "failed"
    /\ Len(events) = 2
    /\ events[2].type = "exit"
    /\ events[2].code = Some(0)
    /\ proc.exit = Some(1)

\* C16: the result of launch is settled once, by the first child event delivered
\* ('error' alone, 'exit' alone, or 'exit' after 'error'); no later step changes
\* the settled promise, nor the launcher's exit code and output once it has exited.
SettledByFirstEvent ==
    events # <<>> =>
        IF events[1].type = "error" \/ events[1].signal # None
        THEN promise.state = "rejected"
        ELSE promise.state = "resolved" /\ promise.value = events[1].code

RECURSIVE Concat(_)
Concat(cs) == IF cs = <<>> THEN "" ELSE Head(cs) \o Concat(Tail(cs))

RECURSIVE TokensBy(_, _)
TokensBy(s, seps) ==
    IF s = <<>> THEN <<>>
    ELSE IF Head(s) \in seps THEN TokensBy(Tail(s), seps)
    ELSE LET n == CHOOSE k \in 1..Len(s) :
                      /\ \A i \in 1..k : s[i] \notin seps
                      /\ k = Len(s) \/ s[k + 1] \in seps
         IN  <<Concat(SubSeq(s, 1, n))>> \o TokensBy(SubSeq(s, n + 1, Len(s)), seps)

\* The install command as the claim describes it, for the given separators.
InstallCommandSplitBy(seps) ==
    Len(syncCalls) >= 2 =>
        LET call == syncCalls[2]
            spec == IF env.NOTEBOOK_MCP_PIP_SPEC \in {None, Some("")}
                    THEN "notebook-mcp"
                    ELSE The(env.NOTEBOOK_MCP_PIP_SPEC)
            value == IF env.NOTEBOOK_MCP_PIP_ARGS = None
                     THEN <<>>
                     ELSE The(env.NOTEBOOK_MCP_PIP_ARGS)
        IN  /\ call.cmd = The(python)
            /\ call.args = <<"-m", "pip", "install", "-U", spec>> \o TokensBy(value, seps)

ProbeCalls == {i \in 1..Len(syncCalls) : IsProbe(syncCalls[i])}
InstallCalls == {i \in 1..Len(syncCalls) : IsInstall(syncCalls[i])}

HelperCallsBounded ==
    /\ Cardinality(ProbeCalls) <= 2
    /\ Cardinality(InstallCalls) <= 1
    /\ ProbeCalls \cup InstallCalls = 1..Len(syncCalls)
    /\ InstallCalls # {} =>
          /\ 1 \in ProbeCalls
          /\ syncCalls[1].res.status # Some(0)

C18_HelpersBoundedNoRetry ==
    /\ []HelperCallsBounded
    /\ [][FatalError => /\ syncCalls' = syncCalls
                        /\ whichCalls' = whichCalls
                        /\ child' = child
                        /\ calls' = calls]_vars

C18_Witness ==
    /\ Cardinality(ProbeCalls) = 2
    /\ Cardinality(InstallCalls) = 1
    /\ NotImportableAfterInstall
    /\ proc.exit = Some(1)

\* C19: when the interpreter cannot be executed (every spawnSync of it reports a
\* spawn error), the first probe raises nothing and counts as not importable,
\* the install command is attempted, its spawn error is the fatal error, no
\* backend is spawned and the launcher exits 1.
C19_UnexecutableInterpreter ==
    (syncCalls # <<>> /\ \A i \in 1..Len(syncCalls) : syncCalls[i].res.error # None) =>
        /\ Len(syncCalls) <= 2
        /\ IsProbe(syncCalls[1])
        /\ Len(syncCalls) = 1 => (pc = "install" /\ promise.state = "pending")
        /\ Len(syncCalls) = 2 =>
              /\ IsInstall(syncCalls[2])
              /\ pc = "returned"
              /\ promise.state = "rejected"
              /\ promise.err = syncCalls[2].res.error
              /\ child = None
              /\ proc.exit # None =>
                    ExitedOneAfterWriting(The(syncCalls[2].res.error).message)

C19_Witness ==
    /\ env.NOTEBOOK_MCP_PYTHON = Some("/opt/venv/bin/python")
    /\ Len(syncCalls) = 2
    /\ syncCalls[1].res.error # None
    /\ syncCalls[2].res.error # None
    /\ proc.exit = Some(1)

\* C20: the install step raises a failure only when the install command could
\* not be spawned or exited with a non-zero status; when a signal ended it, no
\* failure is raised, the re-probe runs, and the re-probe alone decides: the
\* Dependency Ensurer returns if it exits 0 and raises the post-install
\* verification error otherwise.
C20_InstallEndedBySignal ==
    Len(syncCalls) >= 2 =>
        LET res == syncCalls[2].res
            raised == Len(syncCalls) = 2 /\ promise.state = "rejected"
        IN  /\ raised => (res.error # None \/ res.status \notin {None, Some(0)})
            /\ res.signal # None =>
                  /\ ~raised
                  /\ Len(syncCalls) = 2 => pc = "probe2"
                  /\ Len(syncCalls) = 3 =>
                        /\ IsProbe(syncCalls[3])
                        /\ IF syncCalls[3].res.status = Some(0)
                           THEN /\ pc = "spawn" \/ child # None
                                /\ promise.state = "rejected" => child # None
                           ELSE /\ RejectedWith(<<"Installed notebook-mcp but it is still not importable. ">>)
                                /\ child = None

C20_Witness ==
    /\ Len(syncCalls) = 3
    /\ syncCalls[2].res.signal = Some("SIGTERM")
    /\ syncCalls[3].res.status = Some(0)
    /\ child # None

====
